---- MODULE Spec2Model ----
(***************************************************************************)
(* WhiteStripe intensity normalization                                     *)
(* (intensity_normalization/normalize/whitestripe.py).                     *)
(*                                                                         *)
(* Real-valued quantities are kept exact as scaled integers:               *)
(*   - bin edges are stored times 2*nbins, bin centers (and the mode)      *)
(*     times 4*nbins;                                                      *)
(*   - widths are in hundredths (0.05 is 5);                               *)
(*   - quantile ranks are numerators over 100*len(voi), and the two        *)
(*     percentile thresholds ws[0], ws[1] are stored times                 *)
(*     100*len(voi).                                                       *)
(* An absent value (Python None, or a local not yet assigned) is <<>>;     *)
(* a present scalar x is <<x>>.                                            *)
(***************************************************************************)
EXTENDS Integers, Sequences, FiniteSets, TLC

\* ---------------------------------------------------------------- bounds
MaxSmooth == 2     \* the smoothed curve takes values in 1..MaxSmooth
MaxImages == 2     \* files in img_dir / mask_dir
ModeBins == 6      \* bins handed to a get_*_mode called on its own

\* ------------------------------------------- inputs the model holds fixed
NVox == 3          \* voxels of img.get_data(), and of mask.get_data()
NBins == 3         \* the nbins argument of whitestripe

Intensities == {-1, 1, 2, 3}
Widths == {0, 5, 50}
CountVals == {1, 6}
Contrasts == {"T1", "T2", "MD", "PD"}

\* ------------------------------------------------------ program constants
DefaultWidth == 5  \* width=0.05
RareNum == 1       \* rare_prop = 1/5
RareDen == 5

None == <<>>
Some(x) == <<x>>

Max(a, b) == IF a >= b THEN a ELSE b
Min(a, b) == IF a <= b THEN a ELSE b

Range(s) == {s[k] : k \in 1..Len(s)}
SeqMax(s) == CHOOSE m \in Range(s) : \A x \in Range(s) : x <= m
SeqMin(s) == CHOOSE m \in Range(s) : \A x \in Range(s) : m <= x

\* s[keep], numpy boolean-mask indexing: the elements whose flag is set, in order
RECURSIVE Take(_, _, _)
Take(s, keep, k) ==
  IF k > Len(s) THEN <<>>
  ELSE (IF keep[k] THEN <<s[k]>> ELSE <<>>) \o Take(s, keep, k + 1)

\* ------------------------------------------------------------ whitestripe
\* masked = img_data * mask_data, or img_data
Masked(im, mk) ==
  IF mk # None THEN [k \in 1..Len(im) |-> im[k] * mk[k]] ELSE im

\* voi = img_data[mask_data == 1], or img_data[img_data > 0]
Voi(im, mk) ==
  IF mk # None THEN Take(im, [k \in 1..Len(im) |-> mk[k] = 1], 1)
  ELSE Take(im, [k \in 1..Len(im) |-> im[k] > 0], 1)

\* np.histogram's range, doubled: (0, 1) for no data, (v - 0.5, v + 0.5) for
\* constant data, else (min, max)
HistLo2(v) ==
  IF Len(v) = 0 THEN 0
  ELSE IF SeqMin(v) = SeqMax(v) THEN 2 * SeqMin(v) - 1 ELSE 2 * SeqMin(v)
HistHi2(v) ==
  IF Len(v) = 0 THEN 2
  ELSE IF SeqMin(v) = SeqMax(v) THEN 2 * SeqMax(v) + 1 ELSE 2 * SeqMax(v)

\* bin_edges[j], j in 0..nbins, times 2*nbins
BinEdge(lo2, hi2, nbins, j) == nbins * lo2 + j * (hi2 - lo2)

\* the bin (1..nbins) of value x: half-open bins, the last one closed
BinIndex(x, lo2, hi2, nbins) ==
  IF 2 * nbins * x >= BinEdge(lo2, hi2, nbins, nbins - 1) THEN nbins
  ELSE CHOOSE b \in 1..nbins :
         /\ BinEdge(lo2, hi2, nbins, b - 1) <= 2 * nbins * x
         /\ 2 * nbins * x < BinEdge(lo2, hi2, nbins, b)

\* counts of np.histogram(voi, bins=nbins)
HistCounts(v, nbins) ==
  [b \in 1..nbins |->
     Cardinality({k \in 1..Len(v) :
                    BinIndex(v[k], HistLo2(v), HistHi2(v), nbins) = b})]

\* bins = np.diff(bin_edges)/2 + bin_edges[:-1], times 4*nbins
BinCenters(lo2, hi2, nbins) ==
  [b \in 1..nbins |->
     2 * BinEdge(lo2, hi2, nbins, b - 1)
       + (BinEdge(lo2, hi2, nbins, b) - BinEdge(lo2, hi2, nbins, b - 1))]

\* ------------------------------------------------------------ mode finders
\* which_rare = counts < rare_prop * max(counts)
WhichRare(cnt) ==
  [b \in 1..Len(cnt) |-> RareDen * cnt[b] < RareNum * SeqMax(cnt)]

\* x[which_rare != 1]
RemoveTail(x, cnt) ==
  Take(x, [b \in 1..Len(cnt) |-> ~WhichRare(cnt)[b]], 1)

\* the policy a contrast label selects
Policy(c) ==
  IF c \in {"T1", "FA", "last"} THEN "last"
  ELSE IF c \in {"T2", "largest"} THEN "largest"
  ELSE IF c \in {"MD", "first"} THEN "first"
  ELSE "invalid"

\* the bins a policy hands to smooth_hist, and reads the mode from
FitBins(pol, b, cnt) == IF pol = "largest" THEN b ELSE RemoveTail(b, cnt)

\* the curves smooth_hist may return for n bins: one value per bin
Curves(n) == [1..n -> 1..MaxSmooth]

\* scipy.signal.argrelmax(sh)[0]: the indices strictly above both neighbours,
\* ascending (an end point is compared with itself and is never one)
RECURSIVE ArgRelMaxFrom(_, _)
ArgRelMaxFrom(s, k) ==
  IF k >= Len(s) THEN <<>>
  ELSE (IF s[k] > s[k - 1] /\ s[k] > s[k + 1] THEN <<k>> ELSE <<>>)
         \o ArgRelMaxFrom(s, k + 1)
ArgRelMax(s) == ArgRelMaxFrom(s, 2)

\* np.argmax(sh): the first index of the maximum
ArgMax(s) == CHOOSE k \in 1..Len(s) :
               /\ \A j \in 1..Len(s) : s[j] <= s[k]
               /\ \A j \in 1..(k - 1) : s[j] < s[k]

\* largest_peak = bins[np.argmax(sh)]
LargestPeak(b, s) == Some(b[ArgMax(s)])

\* a last_peak that falls back on the global maximum when there is no peak
LastPeakFallsBack(b, s) ==
  IF Len(ArgRelMax(s)) = 0 THEN Some(b[ArgMax(s)])
  ELSE Some(b[ArgRelMax(s)[Len(ArgRelMax(s))]])

\* last_peak = bins[maxima[-1]]; None stands for the IndexError of an empty maxima
LastPeak(b, s) ==
  IF Len(ArgRelMax(s)) = 0 THEN None
  ELSE Some(b[ArgRelMax(s)[Len(ArgRelMax(s))]])

\* a first_peak that indexes maxima[-1]
FirstPeakTakesLast(b, s) ==
  IF Len(ArgRelMax(s)) = 0 THEN None
  ELSE Some(b[ArgRelMax(s)[Len(ArgRelMax(s))]])

\* first_peak = bins[maxima[0]]
FirstPeak(b, s) ==
  IF Len(ArgRelMax(s)) = 0 THEN None ELSE Some(b[ArgRelMax(s)[1]])

\* the value a mode finder returns for a policy, or None when it raises
Peak(pol, b, s) ==
  IF pol = "largest" THEN LargestPeak(b, s)
  ELSE IF pol = "last" THEN LastPeak(b, s)
  ELSE FirstPeak(b, s)

\* -------------------------------------------------------- stripe thresholds
\* len(voi) * np.mean(voi < mode): the voxels of interest strictly below the mode
CountBelow(v, m, nbins) ==
  Cardinality({k \in 1..Len(v) : 4 * nbins * v[k] < m})

\* the lower rank with the width added instead of subtracted
LowerQSignSlip(below, n, wl) == Min(Max(100 * below + wl * n, 0), 100 * n)

\* max(img_mode_q - width_l, 0), times 100*len(voi)
LowerQ(below, n, wl) == Max(100 * below - wl * n, 0)

\* min(img_mode_q + width_u, 1), times 100*len(voi)
UpperQ(below, n, wu) == Min(100 * below + wu * n, 100 * n)

\* the j-th smallest element of v (1-based)
Kth(v, j) ==
  CHOOSE x \in Range(v) :
    /\ Cardinality({k \in 1..Len(v) : v[k] < x}) < j
    /\ j <= Cardinality({k \in 1..Len(v) : v[k] <= x})

\* np.percentile(v, 100*q/den) with linear interpolation, times den,
\* for rank q/den in [0, 1] and den = 100*len(v)
Percentile(v, q, den) ==
  LET pos == q * (Len(v) - 1)
      lo == pos \div den
      hi == Min(lo + 1, Len(v) - 1)
  IN  Kth(v, lo + 1) * den + (Kth(v, hi + 1) - Kth(v, lo + 1)) * (pos % den)

\* ws = np.percentile(voi, (lower, upper)), times 100*len(voi)
Thresholds(v, m, nbins, wl, wu) ==
  LET below == CountBelow(v, m, nbins)
  IN  << Percentile(v, LowerQ(below, Len(v), wl), 100 * Len(v)),
         Percentile(v, UpperQ(below, Len(v), wu), 100 * Len(v)) >>

\* ws_ind = np.logical_and(masked > ws[0], masked < ws[1]); every comparison
\* with the nan thresholds of an empty voi is False
WsInd(msk, v, m, nbins, wl, wu) ==
  IF Len(v) = 0 THEN [k \in 1..Len(msk) |-> FALSE]
  ELSE LET ws == Thresholds(v, m, nbins, wl, wu)
       IN  [k \in 1..Len(msk) |->
              msk[k] * 100 * Len(v) > ws[1] /\ msk[k] * 100 * Len(v) < ws[2]]

\* ------------------------------------------------------- whitestripe_norm
RECURSIVE SumSeq(_)
SumSeq(s) == IF Len(s) = 0 THEN 0 ELSE Head(s) + SumSeq(Tail(s))

\* img_data[indices]
StripeVals(im, ind) == Take(im, ind, 1)

\* mu = np.mean(img_data[indices]), as <<sum, n>>
Mu(im, ind) == << SumSeq(StripeVals(im, ind)), Len(StripeVals(im, ind)) >>

\* sig = np.std(img_data[indices]): its square times n*n
Sig2(im, ind) ==
  Len(StripeVals(im, ind))
      * SumSeq([k \in 1..Len(StripeVals(im, ind)) |->
                  StripeVals(im, ind)[k] * StripeVals(im, ind)[k]])
    - SumSeq(StripeVals(im, ind)) * SumSeq(StripeVals(im, ind))

\* whether (img_data - mu)/sig is a finite array: the mean of no voxels is nan,
\* a division by a zero sig gives inf or nan
Finite(im, ind) == Len(StripeVals(im, ind)) > 0 /\ Sig2(im, ind) > 0

\* ------------------------------------------------------------------ state
VARIABLES
  entry,          \* the function called: "ws_normalize", "whitestripe", "get_mode"
  data_n,         \* len(data)
  masks_n,        \* None when mask_dir is None, else <<len(masks)>>
  contrast,
  write_to_disk,
  i,              \* images taken from the zip so far; the current image
  pc,             \* the next statement
  err,            \* the exception that ended the call, "" when none did
  img, mask,      \* data of the current image, and of its mask or None
  width, width_l, width_u,
  masked, voi,
  counts, bins,   \* the histogram of whitestripe
  fbins,          \* bins inside the mode finder, after the tail is removed
  sh,             \* the smoothed curve
  mode,
  ws_ind,
  mu, sig2,       \* locals of whitestripe_norm
  normalized,     \* the last normalized image: its number and whether it is finite
  stage,          \* per image, the last stage it passed
  written         \* per image, whether io.save_nii was called for it

vars == << entry, data_n, masks_n, contrast, write_to_disk, i, pc, err, img, mask,
           width, width_l, width_u, masked, voi, counts, bins, fbins, sh, mode,
           ws_ind, mu, sig2, normalized, stage, written >>

config == << entry, data_n, masks_n, contrast, write_to_disk >>
args == << img, mask, width >>
hist == << counts, bins >>
norm == << mu, sig2, normalized, written >>

Images == [1..NVox -> Intensities]
Masks == [1..NVox -> {0, 1}]

\* zip(data, masks, output_files) stops at the shortest
ZipLen == IF masks_n = None THEN data_n ELSE Min(data_n, masks_n[1])

\* an exception that is caught and logged inside the loop body, which then
\* goes on to save
RaiseSwallowed(e) ==
  /\ pc' = IF i \in DOMAIN stage THEN "save" ELSE "error"
  /\ err' = e
  /\ stage' = IF i \in DOMAIN stage THEN [stage EXCEPT ![i] = "FAILED"] ELSE stage
  /\ UNCHANGED << config, i, args, width_l, width_u, masked, voi, hist, fbins, sh,
                  mode, ws_ind, norm >>

\* an exception leaves the call: nothing catches it
Raise(e) ==
  /\ pc' = "error"
  /\ err' = e
  /\ stage' = IF i \in DOMAIN stage THEN [stage EXCEPT ![i] = "FAILED"] ELSE stage
  /\ UNCHANGED << config, i, args, width_l, width_u, masked, voi, hist, fbins, sh,
                  mode, ws_ind, norm >>

Pass(s) == stage' = [stage EXCEPT ![i] = s]

\* ------------------------------------------------------------ ws_normalize
\* lines 64-73: the lists of files; the NormalizationError for unequal counts
\* is built and dropped (no raise), so the call goes on
Glob ==
  /\ pc = "glob"
  /\ pc' = "loop"
  /\ UNCHANGED << config, i, err, args, width_l, width_u, masked, voi, hist, fbins,
                  sh, mode, ws_ind, norm, stage >>

\* lines 90-94: the next element of the zip is opened and whitestripe is called
\* with its default widths; when the zip is exhausted the loop ends
Loop ==
  /\ pc = "loop"
  /\ IF i < ZipLen
     THEN /\ i' = i + 1
          /\ img' \in Images
          /\ mask' \in (IF masks_n = None THEN {None} ELSE Masks)
          /\ width' = DefaultWidth
          /\ width_l' = None
          /\ width_u' = None
          /\ stage' = [stage EXCEPT ![i + 1] = "RAW"]
          /\ pc' = "whitestripe"
          /\ UNCHANGED << config, err, masked, voi, hist, fbins, sh, mode, ws_ind,
                          norm >>
     ELSE /\ pc' = "return"
          /\ UNCHANGED << config, i, err, args, width_l, width_u, masked, voi, hist,
                          fbins, sh, mode, ws_ind, norm, stage >>

\* lines 95: normalized = whitestripe_norm(img, indices), lines 163-168
Normalize ==
  /\ pc = "norm"
  /\ mu' = Mu(img, ws_ind)
  /\ sig2' = Sig2(img, ws_ind)
  /\ normalized' = [img |-> i, finite |-> Finite(img, ws_ind)]
  /\ Pass("NORMALIZED")
  /\ pc' = "save"
  /\ UNCHANGED << config, i, err, args, width_l, width_u, masked, voi, hist, fbins,
                  sh, mode, ws_ind, written >>

\* lines 96-98, the end of the loop body: the image is saved; the values the
\* body computed for it are dead from here on (the next pass assigns each
\* before reading it) and are cleared, all but normalized
Save ==
  /\ pc = "save"
  /\ written' = IF write_to_disk THEN [written EXCEPT ![i] = TRUE] ELSE written
  /\ pc' = "loop"
  /\ img' = None /\ mask' = None /\ width_l' = None /\ width_u' = None
  /\ masked' = None /\ voi' = None /\ counts' = None /\ bins' = None
  /\ fbins' = None /\ sh' = None /\ mode' = None /\ ws_ind' = None
  /\ mu' = None /\ sig2' = None
  /\ UNCHANGED << config, i, err, width, normalized, stage >>

\* line 101: return normalized, unbound when the loop body never ran
Return ==
  /\ pc = "return"
  /\ IF i = 0
     THEN Raise("UnboundLocalError")
     ELSE /\ pc' = "done"
          /\ UNCHANGED << config, i, err, args, width_l, width_u, masked, voi, hist,
                          fbins, sh, mode, ws_ind, norm, stage >>

\* ------------------------------------------------------------- whitestripe
\* lines 122-132
ApplyMask ==
  /\ pc = "whitestripe"
  /\ width_l' = IF width_l = None /\ width_u = None THEN Some(width) ELSE width_l
  /\ width_u' = IF width_l = None /\ width_u = None THEN Some(width) ELSE width_u
  /\ masked' = Masked(img, mask)
  /\ voi' = Voi(img, mask)
  /\ Pass("MASK-APPLIED")
  /\ pc' = "histogram"
  /\ UNCHANGED << config, i, err, args, hist, fbins, sh, mode, ws_ind, norm >>

\* lines 133-134
Histogram ==
  /\ pc = "histogram"
  /\ counts' = HistCounts(voi, NBins)
  /\ bins' = BinCenters(HistLo2(voi), HistHi2(voi), NBins)
  /\ Pass("HISTOGRAMMED")
  /\ pc' = "smooth"
  /\ UNCHANGED << config, i, err, args, width_l, width_u, masked, voi, fbins, sh,
                  mode, ws_ind, norm >>

\* lines 135-142, then 183 or 203-207 or 228-232: the policy is chosen, the
\* rare bins are dropped (not for largest) and smooth_hist fits the curve;
\* the fit may return any curve over the remaining bins, or raise
SmoothHist ==
  /\ pc = "smooth"
  /\ IF Policy(contrast) = "invalid"
     THEN Raise("NormalizationError")
     ELSE \E r \in Curves(Len(FitBins(Policy(contrast), bins, counts))) \cup {None} :
            IF r = None
            THEN Raise("FittingError")
            ELSE /\ fbins' = FitBins(Policy(contrast), bins, counts)
                 /\ sh' = r
                 /\ Pass("SMOOTHED")
                 /\ pc' = "findmode"
                 /\ UNCHANGED << config, i, err, args, width_l, width_u, masked, voi,
                                 hist, mode, ws_ind, norm >>

\* lines 184-185, 208-210, 233-235
FindMode ==
  /\ pc = "findmode"
  /\ IF Peak(Policy(contrast), fbins, sh) = None
     THEN Raise("IndexError")
     ELSE /\ mode' = Peak(Policy(contrast), fbins, sh)
          /\ Pass("MODE-FOUND")
          /\ pc' = IF entry = "get_mode" THEN "returned" ELSE "stripe"
          /\ UNCHANGED << config, i, err, args, width_l, width_u, masked, voi, hist,
                          fbins, sh, ws_ind, norm >>

\* lines 143-148. A width left None makes the subtraction a TypeError; for an
\* empty voi the mean is nan and np.percentile raises or returns nan, by version
Stripe ==
  /\ pc = "stripe"
  /\ IF width_l = None \/ width_u = None
     THEN Raise("TypeError")
     ELSE \E o \in (IF Len(voi) = 0 THEN {"raise", "value"} ELSE {"value"}) :
            IF o = "raise"
            THEN Raise("IndexError")
            ELSE IF Len(WsInd(masked, voi, mode[1], NBins, width_l[1], width_u[1])) = 0
            THEN Raise("NormalizationError")
            ELSE /\ ws_ind' = WsInd(masked, voi, mode[1], NBins, width_l[1], width_u[1])
                 /\ Pass("STRIPED")
                 /\ pc' = IF entry = "whitestripe" THEN "returned" ELSE "norm"
                 /\ UNCHANGED << config, i, err, args, width_l, width_u, masked, voi,
                                 hist, fbins, sh, mode, norm >>

\* ---------------------------------------------------------- specifications
NoStage == [k \in 1..MaxImages |-> "NONE"]
NoneWritten == [k \in 1..MaxImages |-> FALSE]

Locals ==
  /\ masked = None /\ voi = None /\ fbins = None
  /\ sh = None /\ mode = None /\ ws_ind = None /\ mu = None /\ sig2 = None
  /\ normalized = None /\ err = "" /\ written = NoneWritten

\* a call of ws_normalize(img_dir, contrast, mask_dir, output_dir, write_to_disk)
Init ==
  /\ entry = "ws_normalize"
  /\ data_n \in 0..MaxImages
  /\ masks_n \in {None} \cup {Some(m) : m \in 0..MaxImages}
  /\ contrast \in Contrasts
  /\ write_to_disk \in BOOLEAN
  /\ i = 0
  /\ pc = "glob"
  /\ img = None /\ mask = None
  /\ width = DefaultWidth /\ width_l = None /\ width_u = None
  /\ stage = NoStage
  /\ counts = None /\ bins = None
  /\ Locals

Next ==
  \/ Glob \/ Loop \/ ApplyMask \/ Histogram \/ SmoothHist \/ FindMode \/ Stripe
  \/ Normalize \/ Save \/ Return

Spec == Init /\ [][Next]_vars

\* a call of whitestripe(img, contrast, mask, nbins, width, width_l, width_u)
InitWS ==
  /\ entry = "whitestripe"
  /\ data_n = 1 /\ masks_n = None /\ write_to_disk = FALSE
  /\ contrast \in Contrasts \ {"PD"}
  /\ i = 1
  /\ pc = "whitestripe"
  /\ img \in Images
  /\ mask \in Masks \cup {None}
  /\ width \in Widths \ {0}
  /\ width_l \in {None} \cup {Some(w) : w \in Widths}
  /\ width_u \in {None} \cup {Some(w) : w \in Widths}
  /\ stage = [NoStage EXCEPT ![1] = "RAW"]
  /\ counts = None /\ bins = None
  /\ Locals

NextWS == ApplyMask \/ Histogram \/ SmoothHist \/ FindMode \/ Stripe

SpecWS == InitWS /\ [][NextWS]_vars

\* a call of get_last_mode, get_largest_mode or get_first_mode(bins, counts)
InitMode ==
  /\ entry = "get_mode"
  /\ data_n = 1 /\ masks_n = None /\ write_to_disk = FALSE
  /\ contrast \in {"last", "largest", "first"}
  /\ i = 1
  /\ pc = "smooth"
  /\ img = None /\ mask = None
  /\ width = DefaultWidth /\ width_l = None /\ width_u = None
  /\ stage = [NoStage EXCEPT ![1] = "HISTOGRAMMED"]
  /\ Locals
  /\ counts \in [1..ModeBins -> CountVals]
  /\ bins = BinCenters(0, 2, ModeBins)

NextMode == SmoothHist \/ FindMode

SpecMode == InitMode /\ [][NextMode]_vars

\* ------------------------------------------------------------------ claims
StrictPeak(s, k) == 1 < k /\ k < Len(s) /\ s[k - 1] < s[k] /\ s[k + 1] < s[k]
Peaks(s) == {k \in 1..Len(s) : StrictPeak(s, k)}
Trimming == Policy(contrast) \in {"first", "last"}
StripeSet == {k \in 1..Len(ws_ind) : ws_ind[k]}
InWindow(x, wl, wu) ==
  /\ x * 100 * Len(voi) > Thresholds(voi, mode[1], NBins, wl, wu)[1]
  /\ x * 100 * Len(voi) < Thresholds(voi, mode[1], NBins, wl, wu)[2]

\* C1: whitestripe never returns a stripe mask without a True entry (an empty
\* stripe is signalled as an error).
C1_StripeNeverEmpty == (pc = "returned" /\ Len(voi) > 0) => StripeSet # {}

\* C2: every voxel of a returned stripe has its original intensity strictly
\* between the two thresholds, and lies inside the mask when a mask is given,
\* or has a strictly positive intensity when none is.
C2_StripeInsideMaskAndWindow ==
  pc = "returned" =>
    \A k \in StripeSet :
      /\ InWindow(img[k], width_l[1], width_u[1])
      /\ IF mask # None THEN mask[k] = 1 ELSE img[k] > 0

\* C3: whitestripe_norm never returns an image for a stripe of one or more
\* voxels whose standard deviation is zero; it signals an error instead.
C3_ZeroScaleSignalled ==
  (pc = "save" /\ mu[2] >= 1) => sig2 > 0

StageOrder ==
  << "RAW", "MASK-APPLIED", "HISTOGRAMMED", "SMOOTHED", "MODE-FOUND", "STRIPED",
     "NORMALIZED" >>
StageStep(a, b) ==
  \/ a = "NONE" /\ b = "RAW"
  \/ b = "FAILED" /\ a \in Range(StageOrder) \ {"NORMALIZED"}
  \/ \E k \in 1..(Len(StageOrder) - 1) : a = StageOrder[k] /\ b = StageOrder[k + 1]

\* C4: an image's output file is written only once that image has passed every
\* stage in order, RAW to NORMALIZED, without an error; an image for which a
\* stage signalled an error is never written.
C4_WriteOnlyAfterAllStages ==
  /\ [][\A j \in 1..MaxImages :
          /\ stage'[j] # stage[j] => (j = i' /\ StageStep(stage[j], stage'[j]))
          /\ (written'[j] /\ ~written[j]) =>
               (j = i /\ stage[j] = "NORMALIZED" /\ err = "")]_vars
  /\ [](\A j \in 1..MaxImages :
          /\ written[j] => stage[j] = "NORMALIZED"
          /\ stage[j] = "FAILED" => (~written[j] /\ pc = "error"))

\* one image normalized and written, the next one failed in the mode finder
C4_Witness ==
  /\ pc = "error" /\ write_to_disk
  /\ stage[1] = "NORMALIZED" /\ written[1]
  /\ stage[2] = "FAILED" /\ ~written[2]
  /\ err = "IndexError" /\ sh # None /\ mode = None

\* C5: when the pipeline fails for one image of a batch (with as many masks as
\* images, or none; the failure being the mode finder's or the stripe's own
\* IndexError), every other image is still normalized, and written when
\* write_to_disk is set.
C5_FailureIsolated ==
  (pc \in {"done", "error"} /\ masks_n \in {None, Some(data_n)}
     /\ err \in {"", "IndexError"} /\ sh # None /\ Len(voi) > 0) =>
    \A j \in 1..data_n :
      stage[j] # "FAILED" =>
        (stage[j] = "NORMALIZED" /\ (write_to_disk => written[j]))

\* C6: stripe monotonicity. For the image, mask and mode of a returned stripe,
\* the stripe of any widths no larger than the call's (both at least 0) is
\* contained in the returned stripe, so its voxel count is no larger.
C6_StripeMonotone ==
  pc = "returned" =>
    \A wl \in Widths, wu \in Widths :
      (wl <= width_l[1] /\ wu <= width_u[1]) =>
        LET narrow == WsInd(masked, voi, mode[1], NBins, wl, wu)
        IN  /\ \A k \in 1..Len(ws_ind) : narrow[k] => ws_ind[k]
            /\ Cardinality({k \in 1..Len(ws_ind) : narrow[k]})
                 <= Cardinality(StripeSet)

\* a stripe of widths 0.5 that holds a voxel the stripe of widths 0.05 lacks
C6_Witness ==
  /\ pc = "returned"
  /\ width_l = Some(50) /\ width_u = Some(50)
  /\ \E k \in StripeSet : ~WsInd(masked, voi, mode[1], NBins, 5, 5)[k]
  /\ \E k \in StripeSet : WsInd(masked, voi, mode[1], NBins, 5, 50)[k]

\* the bins a trimming policy keeps: those whose count is not below
\* rare_prop * max(counts)
KeptBins == {bins[b] : b \in {c \in 1..Len(counts) :
                                RareDen * counts[c] >= RareNum * SeqMax(counts)}}
Increasing(s) == \A k \in 1..(Len(s) - 1) : s[k] < s[k + 1]
PolicyCore ==
  /\ Len(sh) = Len(fbins)
  /\ Increasing(fbins)
  /\ Trimming => Range(fbins) = KeptBins
  /\ Policy(contrast) = "largest" =>
       /\ fbins = bins
       /\ \E p \in 1..Len(sh) :
            /\ mode = Some(fbins[p])
            /\ \A q \in 1..Len(sh) : sh[q] <= sh[p]
            /\ \A q \in 1..(p - 1) : sh[q] < sh[p]
  /\ Policy(contrast) = "first" =>
       \E p \in Peaks(sh) :
         mode = Some(fbins[p]) /\ \A q \in Peaks(sh) : p <= q
  /\ Policy(contrast) = "last" =>
       \E p \in Peaks(sh) :
         mode = Some(fbins[p]) /\ \A q \in Peaks(sh) : q <= p

C8_NoPeakIsFatal ==
  /\ [][(pc = "findmode" /\ Trimming /\ Peaks(sh) = {}) =>
          (pc' = "error" /\ err' = "IndexError" /\ mode' = None
             /\ stage'[i] = "FAILED")]_vars
  /\ []((Trimming /\ pc \in {"stripe", "norm", "save"}) => Peaks(sh) # {})

\* a first/last mode finder that ended in IndexError on a curve without a peak
C8_Witness ==
  /\ pc = "error" /\ err = "IndexError" /\ Trimming
  /\ sh # None /\ Peaks(sh) = {} /\ mode = None
  /\ stage[i] = "FAILED"

\* C9: after the defaults are applied, both widths of whitestripe are numbers:
\* a width left out by the caller is derived from width.
C9_OmittedWidthDerives ==
  pc # "whitestripe" => (width_l # None /\ width_u # None /\ err # "TypeError")

\* C10: with a mask_dir whose number of files differs from the number of
\* images, ws_normalize takes no image from the batch and never returns
\* normally: it ends in an error before any image is processed.
C10_MaskCountMismatchRaises ==
  (masks_n # None /\ masks_n # Some(data_n)) => (i = 0 /\ pc # "done")

====
